---- MODULE Spec2Model ----
(***************************************************************************)
(* perform_rfm_analysis of Main/rfm_ui.py and Main/rfm_adv.py: the          *)
(* transaction table is grouped by customer into Recency / Frequency /     *)
(* Monetary, each metric is cut into quartile scores with pd.qcut, the     *)
(* scores are concatenated into RFM_Score and the customer is labelled     *)
(* (pd.cut over the integer score in rfm_ui, np.select over the score      *)
(* triple in rfm_adv).                                                     *)
(*                                                                         *)
(* Time is counted in ticks, TicksPerDay to a day; a date string parses to *)
(* midnight of its day.  Scalars carry their Python type: an int label is  *)
(* IntV(n), a missing value NaNV, a str StrV(<<chars>>).                   *)
(***************************************************************************)
EXTENDS Integers, Sequences, FiniteSets, TLC

\* ------------------------------------------------------------- bounds
MaxCust == 4
MaxPer == 3
TicksPerDay == 2
MaxDay == MaxCust

\* pd.qcut(..., 4, ...): the number of quantile bins
NBins == 4

VARIABLES pc, prog, data, now, rfm, err

vars == <<pc, prog, data, now, rfm, err>>

\* ------------------------------------------------------------ scalars
IntV(n) == [t |-> "int", v |-> n]
StrV(s) == [t |-> "str", s |-> s]
NaNV == [t |-> "nan"]

Digits == <<"0", "1", "2", "3", "4", "5", "6", "7", "8", "9">>

RECURSIVE DigitsOf(_)
\* str(n) for an int n >= 0, as the sequence of its decimal characters
DigitsOf(n) ==
    IF n < 10 THEN <<Digits[n + 1]>>
    ELSE DigitsOf(n \div 10) \o <<Digits[(n % 10) + 1]>>

\* Series.astype(str) on one cell: the characters of str(value)
AsTypeStr(x) ==
    IF x.t = "int"
    THEN IF x.v < 0 THEN <<"-">> \o DigitsOf(-x.v) ELSE DigitsOf(x.v)
    ELSE IF x.t = "nan" THEN <<"n", "a", "n">>
    ELSE x.s

DigitVal(c) == CHOOSE d \in 0..9 : Digits[d + 1] = c

IsDigit(c) == \E d \in 0..9 : Digits[d + 1] = c

\* whether int(x) accepts the string (an unsigned decimal literal)
IntParses(s) == Len(s) > 0 /\ \A i \in 1..Len(s) : IsDigit(s[i])

RECURSIVE IntOf(_)
\* int(x) of a decimal string
IntOf(s) ==
    IF Len(s) = 0 THEN 0
    ELSE 10 * IntOf(SubSeq(s, 1, Len(s) - 1)) + DigitVal(s[Len(s)])

\* ------------------------------------------------------------- inputs
\* the column 'Date of Purchase' is the record field Date
RequiredColumns == {"Branch", "Route", "Customer", "Date"}

Branches == <<"A", "B">>
Routes == <<"X", "Y", "Z">>

\* a purchase profile o encodes (purchases, last purchase day) of one customer
MaxCode == MaxPer * MaxDay - 1
PurchasesOf(o) == (o \div MaxDay) + 1
LastDayOf(o) == (o % MaxDay) + 1

\* the purchase profiles of n customers, customer by customer; the customers
\* are listed by non-decreasing profile
Profiles(n) ==
    {ps \in [1..n -> 0..MaxCode] : \A i \in 1..(n - 1) : ps[i] <= ps[i + 1]}

\* the day of customer c's j-th purchase: the last day at one position that
\* moves with c, an earlier or equal day elsewhere
DayOf(c, o, j) ==
    IF j = (c % PurchasesOf(o)) + 1 THEN LastDayOf(o)
    ELSE ((j + c) % LastDayOf(o)) + 1

\* one date cell of the sheet: text as typed in the template ('2023-01-01'),
\* or a timestamp as read_excel gives for a date-formatted cell
DateCell(fmt, day) ==
    IF fmt = "str" THEN [kind |-> "str", v |-> day]
    ELSE [kind |-> "datetime", v |-> TicksPerDay * day]

\* the form of the date cell of customer c's j-th purchase
FormatOf(c, j) == IF (c + j) % 2 = 0 THEN "str" ELSE "datetime"

Row(c, o, j) ==
    [Customer |-> c,
     Branch |-> Branches[((j + c) % Len(Branches)) + 1],
     Route |-> Routes[((j * c) % Len(Routes)) + 1],
     Date |-> DateCell(FormatOf(c, j), DayOf(c, o, j))]

RECURSIVE TableFrom(_, _, _)
\* the sheet: purchase j of every customer who has one, for j = 1, 2, ...,
\* so that the rows of one customer are spread over the sheet
TableFrom(ps, j, c) ==
    IF j > MaxPer THEN <<>>
    ELSE IF c > Len(ps) THEN TableFrom(ps, j + 1, 1)
    ELSE (IF j <= PurchasesOf(ps[c]) THEN <<Row(c, ps[c], j)>> ELSE <<>>)
         \o TableFrom(ps, j, c + 1)

Table(ps) == TableFrom(ps, 1, 1)

\* datetime.now(): noon of the first day or noon of the last day of the calendar
Nows == {TicksPerDay * 1 + 1, TicksPerDay * MaxDay + 1}

\* ------------------------------------------------------ pandas helpers
\* pd.to_datetime on one cell: a date string becomes midnight of its day,
\* a timestamp stays as it is
ToDatetime(cell) ==
    IF cell.kind = "str" THEN [kind |-> "datetime", v |-> TicksPerDay * cell.v]
    ELSE cell

\* data['Date of Purchase'] = pd.to_datetime(data['Date of Purchase'])
ConvertDates(d) == [i \in DOMAIN d |-> [d[i] EXCEPT !.Date = ToDatetime(@)]]

RECURSIVE SortedSeqOf(_)
\* the elements of a set of ints in ascending order
SortedSeqOf(S) ==
    IF S = {} THEN <<>>
    ELSE LET m == CHOOSE x \in S : \A y \in S : x <= y
         IN <<m>> \o SortedSeqOf(S \ {m})

\* GroupKeys with the scan of the rows started one row late
GroupKeysSkipFirst(d) == SortedSeqOf({d[i].Customer : i \in 2..Len(d)})

\* groupby('Customer'): the group keys, each once, sorted
GroupKeys(d) == SortedSeqOf({d[i].Customer : i \in DOMAIN d})

\* the rows of one group, in table order
GroupRows(d, c) == SelectSeq(d, LAMBDA r : r.Customer = c)

\* x.max() of the group's dates
MaxDate(rows) ==
    CHOOSE m \in {rows[i].Date.v : i \in DOMAIN rows} :
        \A i \in DOMAIN rows : rows[i].Date.v <= m

\* (now - x.max()).days: Timedelta.days is the floor of the difference in days
RecencyOf(n, rows) == (n - MaxDate(rows)) \div TicksPerDay

NA == "<NA>"

\* groupby(...)[col].count(): the non-null cells of the column in the group
CountOf(rows, col) == Len(SelectSeq(rows, LAMBDA r : r[col] # NA))

\* Frequency: the count of 'Route'
FrequencyOf(rows) == CountOf(rows, "Route")

\* Monetary taken as the number of distinct branches (nunique for count)
MonetaryDistinctBranches(rows) == Cardinality({rows[i].Branch : i \in DOMAIN rows} \ {NA})

\* Monetary: the count of 'Branch'
MonetaryOf(rows) == CountOf(rows, "Branch")

\* agg 'first': the first non-null cell of the column in the group
FirstOf(rows, col) ==
    LET nn == SelectSeq(rows, LAMBDA r : r[col] # NA)
    IN IF Len(nn) = 0 THEN NA ELSE nn[1][col]

RECURSIVE Insert(_, _)
Insert(x, s) ==
    IF Len(s) = 0 THEN <<x>>
    ELSE IF x <= s[1] THEN <<x>> \o s
    ELSE <<s[1]>> \o Insert(x, Tail(s))

RECURSIVE SortValues(_)
\* the values of a column in ascending order, ties kept
SortValues(s) == IF Len(s) = 0 THEN <<>> ELSE Insert(s[1], SortValues(Tail(s)))

\* Series.quantile(k / NBins), linear interpolation, times NBins (an integer):
\* position h = (n - 1) * k / NBins between sorted[j + 1] and sorted[j + 2]
QuantileTimesN(sorted, k) ==
    LET h == (Len(sorted) - 1) * k
        j == h \div NBins
        r == h % NBins
    IN IF r = 0 THEN NBins * sorted[j + 1]
       ELSE NBins * sorted[j + 1] + r * (sorted[j + 2] - sorted[j + 1])

\* the NBins + 1 bin edges of pd.qcut(x, NBins), times NBins; the quantiles of
\* an empty column are all missing, which is NBins + 1 equal edges
QcutEdges(xs) ==
    LET sorted == SortValues(xs)
    IN IF Len(xs) = 0 THEN [k \in 1..(NBins + 1) |-> 0]
       ELSE [k \in 1..(NBins + 1) |-> QuantileTimesN(sorted, k - 1)]

\* duplicates='raise': "Bin edges must be unique"
EdgesUnique(edges) == \A i, j \in DOMAIN edges : i # j => edges[i] # edges[j]

\* BinIndex without the include_lowest step
BinIndexNoLowest(edges, x, includeLowest) ==
    Cardinality({k \in DOMAIN edges : edges[k] < x})

\* bins.searchsorted(x, side='left'), then ids[x == bins[0]] = 1 (include_lowest)
BinIndex(edges, x, includeLowest) ==
    IF includeLowest /\ x = edges[1] THEN 1
    ELSE Cardinality({k \in DOMAIN edges : edges[k] < x})

\* take the label of the bin; ids of 0 or len(bins) are masked to NaN
LabelAt(edges, labels, id) ==
    IF id = 0 \/ id = Len(edges) THEN NaNV ELSE IntV(labels[id])

\* pd.qcut(x, NBins, labels) for a column that has unique edges
Qcut(xs, labels) ==
    LET edges == QcutEdges(xs)
    IN [i \in DOMAIN xs |-> LabelAt(edges, labels, BinIndex(edges, NBins * xs[i], TRUE))]

\* the recency labels in the order of the other two metrics
RecencyLabelsAscending == <<1, 2, 3, 4>>

\* labels=[4, 3, 2, 1]: lower recency, higher score
RecencyLabels == <<4, 3, 2, 1>>

\* labels=[1, 2, 3, 4]
FrequencyLabels == <<1, 2, 3, 4>>

\* labels=[1, 2, 3, 4]
MonetaryLabels == <<1, 2, 3, 4>>

\* the digit-sum composite: str(r + f + m)
RFMScoreSum(r, f, m) ==
    IF r.t = "int" /\ f.t = "int" /\ m.t = "int" THEN AsTypeStr(IntV(r.v + f.v + m.v))
    ELSE AsTypeStr(NaNV)

\* R_Score.astype(str) + F_Score.astype(str) + M_Score.astype(str)
RFMScore(r, f, m) == AsTypeStr(r) \o AsTypeStr(f) \o AsTypeStr(m)

\* ------------------------------------------------------ metric tables
\* all(col in data.columns for col in required_columns)
HasRequiredColumns(d) == \A i \in DOMAIN d : RequiredColumns \subseteq DOMAIN d[i]

\* rfm_adv: one agg over the groups gives Recency, Frequency, Monetary
AdvMetrics(d, n) ==
    LET keys == GroupKeys(d)
    IN [i \in DOMAIN keys |->
          [Customer |-> keys[i],
           Recency |-> RecencyOf(n, GroupRows(d, keys[i])),
           Frequency |-> FrequencyOf(GroupRows(d, keys[i])),
           Monetary |-> MonetaryOf(GroupRows(d, keys[i]))]]

\* a Series indexed by customer: groupby('Customer')[col].count()
CountSeries(d, col) ==
    [c \in {d[i].Customer : i \in DOMAIN d} |-> CountOf(GroupRows(d, c), col)]

\* rfm[col] = series: the assignment aligns on the index, NaN where it has no key
Aligned(series, key) == IF key \in DOMAIN series THEN series[key] ELSE NA

\* rfm_ui: Recency from the agg, Frequency and Monetary assigned from two
\* count Series
UiMetrics(d, n) ==
    LET keys == GroupKeys(d)
        frequency == CountSeries(d, "Route")
        monetary == CountSeries(d, "Branch")
    IN [i \in DOMAIN keys |->
          [Customer |-> keys[i],
           Recency |-> RecencyOf(n, GroupRows(d, keys[i])),
           Frequency |-> Aligned(frequency, keys[i]),
           Monetary |-> Aligned(monetary, keys[i])]]

\* branch_route_details: the first Branch and Route of every customer
BranchRouteDetails(d) ==
    LET keys == GroupKeys(d)
    IN [i \in DOMAIN keys |->
          [Customer |-> keys[i],
           Branch |-> FirstOf(GroupRows(d, keys[i]), "Branch"),
           Route |-> FirstOf(GroupRows(d, keys[i]), "Route")]]

\* the rows one left row gives in a left merge on 'Customer': one per matching
\* right row, or one with missing details when none matches
MergeRow(l, right) ==
    LET ms == SelectSeq(right, LAMBDA r : r.Customer = l.Customer)
    IN IF Len(ms) = 0
       THEN <<[Customer |-> l.Customer, Recency |-> l.Recency,
               Frequency |-> l.Frequency, Monetary |-> l.Monetary,
               Branch |-> NA, Route |-> NA]>>
       ELSE [k \in DOMAIN ms |->
               [Customer |-> l.Customer, Recency |-> l.Recency,
                Frequency |-> l.Frequency, Monetary |-> l.Monetary,
                Branch |-> ms[k].Branch, Route |-> ms[k].Route]]

RECURSIVE MergeLeft(_, _)
\* rfm.merge(branch_route_details, on='Customer', how='left')
MergeLeft(left, right) ==
    IF Len(left) = 0 THEN <<>>
    ELSE MergeRow(left[1], right) \o MergeLeft(Tail(left), right)

\* ------------------------------------------------------------ scoring
Column(m, col) == [i \in DOMAIN m |-> m[i][col]]

\* the three pd.qcut calls succeed: none raises on duplicate edges
Scorable(m) ==
    /\ EdgesUnique(QcutEdges(Column(m, "Recency")))
    /\ EdgesUnique(QcutEdges(Column(m, "Frequency")))
    /\ EdgesUnique(QcutEdges(Column(m, "Monetary")))

RScores(m) == Qcut(Column(m, "Recency"), RecencyLabels)
FScores(m) == Qcut(Column(m, "Frequency"), FrequencyLabels)
MScores(m) == Qcut(Column(m, "Monetary"), MonetaryLabels)

\* a Categorical compared with a scalar: element-wise on a category, all False
\* on a scalar that is not one of the categories
CatEq(cell, other, categories) ==
    IF other.t = "int" /\ other.v \in categories
    THEN cell.t = "int" /\ cell.v = other.v
    ELSE FALSE

CategoriesOf(labels) == {labels[i] : i \in DOMAIN labels}

\* the condition list of np.select: the score triples, as the str literals
\* the code compares with
SegmentPatterns ==
    << <<"1", "4", "4">>, <<"1", "4", "3">>, <<"1", "3", "3">>, <<"1", "2", "2">>,
       <<"1", "1", "1">>, <<"2", "2", "2">>, <<"3", "3", "3">>, <<"4", "4", "4">> >>

SegmentChoices ==
    <<"Best Customers", "Loyal Customers", "Potential Loyalists", "Recent Customers",
      "Lost Customers", "At Risk", "Churned", "New Customers">>

\* (rfm['R_Score'] == 'a') & (rfm['F_Score'] == 'b') & (rfm['M_Score'] == 'c')
PatternCond(r, f, m, p) ==
    /\ CatEq(r, StrV(<<p[1]>>), CategoriesOf(RecencyLabels))
    /\ CatEq(f, StrV(<<p[2]>>), CategoriesOf(FrequencyLabels))
    /\ CatEq(m, StrV(<<p[3]>>), CategoriesOf(MonetaryLabels))

\* np.select(condlist, choicelist, default='Other'): the first true condition
SegmentOf(r, f, m) ==
    LET hits == {k \in DOMAIN SegmentPatterns : PatternCond(r, f, m, SegmentPatterns[k])}
    IN IF hits = {} THEN "Other"
       ELSE SegmentChoices[CHOOSE k \in hits : \A j \in hits : k <= j]

\* pd.cut(rfm['RFM_Score_int'], bins=[0, 5, 7, 9, 10], labels=categories,
\*        include_lowest=True)
CutBins == <<0, 5, 7, 9, 10>>

Categories ==
    <<"Loyal Customers", "Potential Loyalists", "At-Risk Customers", "Lost Customers">>

CategoryOf(x) ==
    LET id == BinIndex(CutBins, x, TRUE)
    IN IF id = 0 \/ id = Len(CutBins) THEN NA ELSE Categories[id]

\* rfm_adv lines 28-56: scores, RFM_Score, Segment
AdvScored(m) ==
    LET rs == RScores(m)
        fs == FScores(m)
        ms == MScores(m)
    IN [i \in DOMAIN m |->
          [Customer |-> m[i].Customer, Recency |-> m[i].Recency,
           Frequency |-> m[i].Frequency, Monetary |-> m[i].Monetary,
           R_Score |-> rs[i], F_Score |-> fs[i], M_Score |-> ms[i],
           RFM_Score |-> RFMScore(rs[i], fs[i], ms[i]),
           Segment |-> SegmentOf(rs[i], fs[i], ms[i])]]

\* rfm_ui lines 45-50: scores and RFM_Score
UiScored(m) ==
    LET rs == RScores(m)
        fs == FScores(m)
        ms == MScores(m)
    IN [i \in DOMAIN m |->
          [Customer |-> m[i].Customer, Recency |-> m[i].Recency,
           Frequency |-> m[i].Frequency, Monetary |-> m[i].Monetary,
           Branch |-> m[i].Branch, Route |-> m[i].Route,
           R_Score |-> rs[i], F_Score |-> fs[i], M_Score |-> ms[i],
           RFM_Score |-> RFMScore(rs[i], fs[i], ms[i])]]

\* rfm_ui lines 53-63: RFM_Score_int and Category
UiCategorised(s) ==
    [i \in DOMAIN s |->
        [Customer |-> s[i].Customer, Recency |-> s[i].Recency,
         Frequency |-> s[i].Frequency, Monetary |-> s[i].Monetary,
         Branch |-> s[i].Branch, Route |-> s[i].Route,
         R_Score |-> s[i].R_Score, F_Score |-> s[i].F_Score, M_Score |-> s[i].M_Score,
         RFM_Score |-> s[i].RFM_Score,
         RFM_Score_int |-> IntOf(s[i].RFM_Score),
         Category |-> CategoryOf(IntOf(s[i].RFM_Score))]]

Raised(d, e) == [data |-> d, rfm |-> <<>>, err |-> e]
Returned(d, r) == [data |-> d, rfm |-> r, err |-> "none"]

\* rfm_adv.perform_rfm_analysis(data) with datetime.now() = n
AdvResult(d, n) ==
    IF ~HasRequiredColumns(d) THEN Raised(d, "ValueError")
    ELSE LET d2 == ConvertDates(d)
             m == AdvMetrics(d2, n)
         IN IF ~Scorable(m) THEN Raised(d2, "ValueError")
            ELSE Returned(d2, AdvScored(m))

\* rfm_ui.perform_rfm_analysis(data) with datetime.now() = n
UiResult(d, n) ==
    IF ~HasRequiredColumns(d) THEN Raised(d, "ValueError")
    ELSE LET d2 == ConvertDates(d)
             m == MergeLeft(UiMetrics(d2, n), BranchRouteDetails(d2))
         IN IF ~Scorable(m) THEN Raised(d2, "ValueError")
            ELSE LET s == UiScored(m)
                 IN IF \E i \in DOMAIN s : ~IntParses(s[i].RFM_Score)
                    THEN Raised(d2, "ValueError")
                    ELSE Returned(d2, UiCategorised(s))

\* ------------------------------------------------------- state machine
Init ==
    /\ pc = "idle"
    /\ prog = "none"
    /\ \E n \in 1..MaxCust : \E ps \in Profiles(n) : data = Table(ps)
    /\ now = 0
    /\ rfm = <<>>
    /\ err = "none"

Finish(p, n, res) ==
    /\ prog' = p
    /\ now' = n
    /\ data' = res.data
    /\ rfm' = res.rfm
    /\ err' = res.err
    /\ pc' = IF res.err = "none" THEN "returned" ELSE "raised"

\* rfm_result = perform_rfm_analysis(data) in rfm_adv.py
PerformAdv ==
    /\ pc = "idle"
    /\ \E n \in Nows : Finish("adv", n, AdvResult(data, n))

\* rfm_result = perform_rfm_analysis(data) in rfm_ui.py
PerformUi ==
    /\ pc = "idle"
    /\ \E n \in Nows : Finish("ui", n, UiResult(data, n))

Next == PerformAdv \/ PerformUi

Spec == Init /\ [][Next]_vars

\* -------------------------------------------------------------- claims
HasReturned == pc = "returned"

Metrics == {"Recency", "Frequency", "Monetary"}

ScoreField(metric) ==
    IF metric = "Recency" THEN "R_Score"
    ELSE IF metric = "Frequency" THEN "F_Score" ELSE "M_Score"

IsScore(x) == x.t = "int" /\ x.v \in 1..NBins

InputCustomers == {data[i].Customer : i \in DOMAIN data}

\* C1: whenever perform_rfm_analysis returns, the customers of the result are
\* exactly the distinct customers of the transaction table (whose Customer
\* column the call never assigns), one result row for each.
C1_CustomerSetPreserved ==
    HasReturned =>
        /\ {rfm[i].Customer : i \in DOMAIN rfm} = InputCustomers
        /\ \A i, j \in DOMAIN rfm : rfm[i].Customer = rfm[j].Customer => i = j

C1_Witness ==
    /\ HasReturned
    /\ prog = "ui"
    /\ Len(rfm) = 3
    /\ Len(data) > Len(rfm)

\* C2: in rfm_ui, a customer whose integer composite is 444 is labelled
\* 'Loyal Customers'.
C2_TopBucketInclusive ==
    (HasReturned /\ prog = "ui") =>
        \A i \in DOMAIN rfm :
            rfm[i].RFM_Score_int = 444 => rfm[i].Category = "Loyal Customers"

\* the pattern table as the claim states it, over the integer scores
PatternTable ==
    << <<1, 4, 4>>, <<1, 4, 3>>, <<1, 3, 3>>, <<1, 2, 2>>,
       <<1, 1, 1>>, <<2, 2, 2>>, <<3, 3, 3>>, <<4, 4, 4>> >>

PatternLabel(r, f, m) ==
    LET hits == {k \in DOMAIN PatternTable : PatternTable[k] = <<r, f, m>>}
    IN IF hits = {} THEN "Other"
       ELSE SegmentChoices[CHOOSE k \in hits : \A j \in hits : k <= j]

\* C3: in rfm_adv, every customer's segment is the label of the first table
\* entry equal to its (r_score, f_score, m_score), and 'Other' exactly when
\* no entry is equal to it.
C3_PatternPolicy ==
    (HasReturned /\ prog = "adv") =>
        \A i \in DOMAIN rfm :
            rfm[i].Segment = PatternLabel(rfm[i].R_Score.v, rfm[i].F_Score.v, rfm[i].M_Score.v)

DistinctValues(metric) == {rfm[i][metric] : i \in DOMAIN rfm}

\* C4: scoring never returns a table when one of the three metrics takes
\* fewer than 4 distinct values over the customers.
C4_DegenerateFails ==
    HasReturned => \A metric \in Metrics : Cardinality(DistinctValues(metric)) >= NBins

ScoreVal(x) == IF x.t = "int" THEN x.v ELSE 0

\* C6: within one returned table, a smaller recency never has a smaller
\* r_score, and a smaller frequency (monetary) never has a larger f_score
\* (m_score).
C6_QuartileDirection ==
    HasReturned =>
        \A i, j \in DOMAIN rfm :
            /\ rfm[i].Recency < rfm[j].Recency
                  => ScoreVal(rfm[i].R_Score) >= ScoreVal(rfm[j].R_Score)
            /\ rfm[i].Frequency < rfm[j].Frequency
                  => ScoreVal(rfm[i].F_Score) <= ScoreVal(rfm[j].F_Score)
            /\ rfm[i].Monetary < rfm[j].Monetary
                  => ScoreVal(rfm[i].M_Score) <= ScoreVal(rfm[j].M_Score)

C6_Witness ==
    /\ HasReturned
    /\ \E i, j \in DOMAIN rfm :
          /\ rfm[i].Recency < rfm[j].Recency
          /\ ScoreVal(rfm[i].R_Score) > ScoreVal(rfm[j].R_Score)
          /\ rfm[i].Frequency < rfm[j].Frequency
          /\ ScoreVal(rfm[i].F_Score) < ScoreVal(rfm[j].F_Score)

\* C7: every metrics row has recency_days >= 0, frequency >= 1 and
\* monetary >= 1, also when a purchase date is later than 'now'.
C7_MetricRanges ==
    HasReturned =>
        \A i \in DOMAIN rfm :
            rfm[i].Recency >= 0 /\ rfm[i].Frequency >= 1 /\ rfm[i].Monetary >= 1

\* C8: a call of perform_rfm_analysis, returning or raising, leaves every
\* cell of the caller's table as it was.
C8_InputUnchanged == [][data' = data]_vars

GroupSize(metric, k) ==
    Cardinality({i \in DOMAIN rfm : rfm[i][ScoreField(metric)] = IntV(k)})

\* the four score groups of the metric differ in size by at most one, and
\* hold n/4 customers each when n is a multiple of 4
Balanced(metric) ==
    /\ \A k, l \in 1..NBins : GroupSize(metric, k) - GroupSize(metric, l) <= 1
    /\ Len(rfm) % NBins = 0 =>
          \A k \in 1..NBins : GroupSize(metric, k) * NBins = Len(rfm)

C10_MonetaryIsFrequency ==
    HasReturned =>
        \A i \in DOMAIN rfm :
            /\ rfm[i].Monetary = rfm[i].Frequency
            /\ rfm[i].M_Score = rfm[i].F_Score
            /\ prog = "adv" => rfm[i].Segment # "Loyal Customers"

C10_Witness ==
    /\ HasReturned
    /\ prog = "adv"
    /\ \E i, j \in DOMAIN rfm :
          /\ rfm[i].Frequency = 3 /\ rfm[i].F_Score = IntV(4) /\ rfm[i].R_Score = IntV(1)
          /\ rfm[j].Frequency = 1 /\ rfm[j].M_Score = IntV(1)

====
